---- MODULE Spec2Model ----
(***************************************************************************)
(* Model of src/data/sort_words.py: process_words_database reads a JSON    *)
(* words database, reorders the words of every category alphabetically,    *)
(* collects the tags of the entries, re-scans the reordered database for   *)
(* the tags still in use, and dumps the reordered database to a new file.  *)
(*                                                                         *)
(* Strings are sequences of code points.  A Python dict is a sequence of   *)
(* [k, v] items in insertion order.  A JSON text is a sequence of tokens   *)
(* (punctuation, string literals, and the newline+indent whitespace that   *)
(* json.dump(indent=2) emits).                                             *)
(***************************************************************************)
EXTENDS Integers, Sequences, FiniteSets, TLC

(***************************************************************************)
(* Bounds of the model.                                                    *)
(***************************************************************************)
MaxWords == 2      \* words of an enumerated database, all categories together

(***************************************************************************)
(* Strings used by the program and by the sample inputs.                   *)
(***************************************************************************)
TAGS == <<116, 97, 103, 115>>          \* "tags"
DEFN == <<100, 101, 102>>              \* "def", a pass-through field

\* str < str in Python: code points compared left to right, a proper
\* prefix is smaller.
RECURSIVE StrLess(_, _)
StrLessFirstOnly(a, b) ==
    IF b = <<>> THEN FALSE
    ELSE IF a = <<>> THEN TRUE
    ELSE a[1] < b[1]

StrLess(a, b) ==
    IF b = <<>> THEN FALSE
    ELSE IF a = <<>> THEN TRUE
    ELSE IF a[1] # b[1] THEN a[1] < b[1]
    ELSE StrLess(Tail(a), Tail(b))

(***************************************************************************)
(* dict operations.                                                        *)
(***************************************************************************)
Keys(d) == [i \in 1..Len(d) |-> d[i].k]

KeySet(d) == {d[i].k : i \in 1..Len(d)}

Values(d) == [i \in 1..Len(d) |-> d[i].v]

HasKey(d, key) == \E i \in 1..Len(d) : d[i].k = key

\* d[key]
Get(d, key) == d[CHOOSE i \in 1..Len(d) : d[i].k = key].v

\* d[key] = value: an existing key keeps its position, a new key is appended.
DictSet(d, key, value) ==
    IF HasKey(d, key)
    THEN [i \in 1..Len(d) |-> IF d[i].k = key THEN [k |-> key, v |-> value] ELSE d[i]]
    ELSE Append(d, [k |-> key, v |-> value])

\* sorted(iterable): a stable ascending sort by <.
RECURSIVE InsertSorted(_, _)
InsertSorted(s, x) ==
    IF s = <<>> THEN <<x>>
    ELSE IF StrLess(x, s[1]) THEN <<x>> \o s
    ELSE <<s[1]>> \o InsertSorted(Tail(s), x)

RECURSIVE sorted(_)
sorted(s) ==
    IF s = <<>> THEN <<>>
    ELSE InsertSorted(sorted(SubSeq(s, 1, Len(s) - 1)), s[Len(s)])

(***************************************************************************)
(* JSON values of a word entry's fields.                                   *)
(***************************************************************************)
JStr(s) == [type |-> "str", val |-> <<s>>]
JList(l) == [type |-> "list", val |-> l]
JNull == [type |-> "null", val |-> <<>>]

\* isinstance(v, list)
IsList(v) == v.type = "list"

(***************************************************************************)
(* json.dump(obj, f, indent=2) as a token sequence.                        *)
(***************************************************************************)
Tok(t) == [t |-> t, s |-> <<>>]
StrTok(s) == [t |-> "str", s |-> s]
Ws(n) == [t |-> "ws", s |-> <<n>>]     \* newline followed by 2*n spaces

DumpList(l, level) ==
    IF l = <<>> THEN <<Tok("["), Tok("]")>>
    ELSE LET body[i \in 0..Len(l)] ==
                 IF i = 0 THEN <<>>
                 ELSE body[i-1] \o (IF i > 1 THEN <<Tok(",")>> ELSE <<>>)
                      \o <<Ws(level + 1), StrTok(l[i])>>
         IN <<Tok("[")>> \o body[Len(l)] \o <<Ws(level), Tok("]")>>

DumpValue(v, level) ==
    IF v.type = "str" THEN <<StrTok(v.val[1])>>
    ELSE IF v.type = "list" THEN DumpList(v.val, level)
    ELSE <<Tok("null")>>

\* A dict whose values are field values (depth 0) or dicts (depth - 1).
RECURSIVE DumpObject(_, _, _)
DumpObject(d, level, depth) ==
    IF d = <<>> THEN <<Tok("{"), Tok("}")>>
    ELSE LET body[i \in 0..Len(d)] ==
                 IF i = 0 THEN <<>>
                 ELSE body[i-1] \o (IF i > 1 THEN <<Tok(",")>> ELSE <<>>)
                      \o <<Ws(level + 1), StrTok(d[i].k), Tok(":")>>
                      \o (IF depth = 0 THEN DumpValue(d[i].v, level + 1)
                          ELSE DumpObject(d[i].v, level + 1, depth - 1))
         IN <<Tok("{")>> \o body[Len(d)] \o <<Ws(level), Tok("}")>>

DumpEntry(e, level) == DumpObject(e, level, 0)

DumpCategory(c, level) == DumpObject(c, level, 1)

Dump(db) == DumpObject(db, 0, 2)

(***************************************************************************)
(* json.load(f) on a token sequence: a recursive-descent parse.  A result  *)
(* is [ok, val, rest]; ok = FALSE stands for json.JSONDecodeError.         *)
(* Duplicate member names follow dict semantics (DictSet).                 *)
(***************************************************************************)
ParseFail == [ok |-> FALSE, val |-> <<>>, rest |-> <<>>]
ParseOk(v, r) == [ok |-> TRUE, val |-> v, rest |-> r]

RECURSIVE SkipWs(_)
SkipWs(toks) ==
    IF toks # <<>> /\ toks[1].t = "ws" THEN SkipWs(Tail(toks)) ELSE toks

Peek(toks) == IF toks = <<>> THEN "eof" ELSE toks[1].t

RECURSIVE ParseElems(_, _)
ParseElems(toks0, acc) ==
    LET toks == SkipWs(toks0) IN
    IF Peek(toks) # "str" THEN ParseFail
    ELSE LET acc1 == Append(acc, toks[1].s)
             r == SkipWs(Tail(toks))
         IN IF Peek(r) = "," THEN ParseElems(Tail(r), acc1)
            ELSE IF Peek(r) = "]" THEN ParseOk(JList(acc1), Tail(r))
            ELSE ParseFail

ParseValue(toks0) ==
    LET toks == SkipWs(toks0) IN
    IF Peek(toks) = "str" THEN ParseOk(JStr(toks[1].s), Tail(toks))
    ELSE IF Peek(toks) = "null" THEN ParseOk(JNull, Tail(toks))
    ELSE IF Peek(toks) = "["
         THEN IF Peek(SkipWs(Tail(toks))) = "]"
              THEN ParseOk(JList(<<>>), Tail(SkipWs(Tail(toks))))
              ELSE ParseElems(Tail(toks), <<>>)
    ELSE ParseFail

RECURSIVE ParseMembers(_, _, _)
ParseMembers(toks0, acc, depth) ==
    LET toks == SkipWs(toks0) IN
    IF Peek(toks) # "str" THEN ParseFail
    ELSE LET key == toks[1].s
             c == SkipWs(Tail(toks))
         IN IF Peek(c) # ":" THEN ParseFail
            ELSE LET pv == IF depth = 0 THEN ParseValue(Tail(c))
                           ELSE LET o == SkipWs(Tail(c)) IN
                                IF Peek(o) # "{" THEN ParseFail
                                ELSE IF Peek(SkipWs(Tail(o))) = "}"
                                THEN ParseOk(<<>>, Tail(SkipWs(Tail(o))))
                                ELSE ParseMembers(Tail(o), <<>>, depth - 1)
                 IN IF ~pv.ok THEN ParseFail
                    ELSE LET acc1 == DictSet(acc, key, pv.val)
                             r == SkipWs(pv.rest)
                         IN IF Peek(r) = "," THEN ParseMembers(Tail(r), acc1, depth)
                            ELSE IF Peek(r) = "}" THEN ParseOk(acc1, Tail(r))
                            ELSE ParseFail

\* The whole document: one object of objects of objects, then only whitespace.
Load(toks0) ==
    LET o == SkipWs(toks0) IN
    IF Peek(o) # "{" THEN ParseFail
    ELSE LET p == IF Peek(SkipWs(Tail(o))) = "}"
                  THEN ParseOk(<<>>, Tail(SkipWs(Tail(o))))
                  ELSE ParseMembers(Tail(o), <<>>, 2)
         IN IF p.ok /\ SkipWs(p.rest) = <<>> THEN p ELSE ParseFail

(***************************************************************************)
(* The body of process_words_database, one operator per loop body.         *)
(***************************************************************************)
\* Lines 27-29: the tags one word entry adds to all_tags.
TagsOfAnyType(word_info) ==
    IF HasKey(word_info, TAGS)
    THEN {Get(word_info, TAGS).val[i] : i \in 1..Len(Get(word_info, TAGS).val)}
    ELSE {}

TagsOf(word_info) ==
    IF HasKey(word_info, TAGS) /\ IsList(Get(word_info, TAGS))
    THEN {Get(word_info, TAGS).val[i] : i \in 1..Len(Get(word_info, TAGS).val)}
    ELSE {}

\* Lines 47-49: the tags one word entry adds to final_tags_in_use.
FinalTagsOfFirstOnly(word_info) ==
    IF HasKey(word_info, TAGS) /\ IsList(Get(word_info, TAGS))
       /\ Get(word_info, TAGS).val # <<>>
    THEN {Get(word_info, TAGS).val[1]}
    ELSE {}

FinalTagsOf(word_info) ==
    IF HasKey(word_info, TAGS) /\ IsList(Get(word_info, TAGS))
    THEN {Get(word_info, TAGS).val[i] : i \in 1..Len(Get(word_info, TAGS).val)}
    ELSE {}

\* Lines 22-30: the inner loop over sorted(words_data.keys()); the result
\* is the new dict sorted_words_data and the tags added to all_tags.
SortWordsStripping(words_data) ==
    LET ks == sorted(Keys(words_data))
        step[i \in 0..Len(ks)] ==
            IF i = 0 THEN [sorted_words_data |-> <<>>, tags |-> {}]
            ELSE LET word_key == ks[i]
                     word_info == Get(words_data, word_key)
                 IN [sorted_words_data |->
                         DictSet(step[i-1].sorted_words_data, word_key,
                                 IF HasKey(word_info, TAGS) /\ ~IsList(Get(word_info, TAGS))
                                 THEN SelectSeq(word_info, LAMBDA it : it.k # TAGS)
                                 ELSE word_info),
                     tags |-> step[i-1].tags \cup TagsOf(word_info)]
    IN step[Len(ks)]

\* str.lower() on the letters A-Z.
Lower(s) == [i \in 1..Len(s) |-> IF s[i] >= 65 /\ s[i] <= 90 THEN s[i] + 32 ELSE s[i]]

SortWordsLower(words_data) ==
    LET ks == sorted(Keys(words_data))
        step[i \in 0..Len(ks)] ==
            IF i = 0 THEN [sorted_words_data |-> <<>>, tags |-> {}]
            ELSE LET word_key == ks[i]
                     word_info == Get(words_data, word_key)
                 IN [sorted_words_data |->
                         DictSet(step[i-1].sorted_words_data, Lower(word_key), word_info),
                     tags |-> step[i-1].tags \cup TagsOf(word_info)]
    IN step[Len(ks)]

SortWords(words_data) ==
    LET ks == sorted(Keys(words_data))
        step[i \in 0..Len(ks)] ==
            IF i = 0 THEN [sorted_words_data |-> <<>>, tags |-> {}]
            ELSE LET word_key == ks[i]
                     word_info == Get(words_data, word_key)
                 IN [sorted_words_data |->
                         DictSet(step[i-1].sorted_words_data, word_key, word_info),
                     tags |-> step[i-1].tags \cup TagsOf(word_info)]
    IN step[Len(ks)]

\* Lines 46-49: the inner loop over words_data.values() of the audit.
AuditWords(words_data) ==
    UNION {FinalTagsOf(Values(words_data)[i]) : i \in 1..Len(words_data)}

(***************************************************************************)
(* Sample inputs.                                                          *)
(***************************************************************************)
TagX == <<120>>
TagY == <<121>>
TagZ == <<122>>

\* Word keys "B" < "a" < "ab" < "b" in code-point order; the entries have a
\* list of tags, no tags field, or a tags field that is not a list.
WordPool ==
    { [k |-> <<66>>,     v |-> <<[k |-> DEFN, v |-> JStr(<<100>>)]>>],
      [k |-> <<97>>,     v |-> <<[k |-> TAGS, v |-> JList(<<TagX, TagY>>)]>>],
      [k |-> <<97, 98>>, v |-> <<[k |-> TAGS, v |-> JStr(TagZ)], [k |-> DEFN, v |-> JNull]>>],
      [k |-> <<98>>,     v |-> <<[k |-> DEFN, v |-> JStr(<<>>)], [k |-> TAGS, v |-> JList(<<TagY>>)]>>],
      [k |-> <<97>>,     v |-> <<>>] }

CatNames == {<<98>>, <<97>>, <<99>>}

DistinctKeys(d) == \A i, j \in 1..Len(d) : d[i].k = d[j].k => i = j

\* The categories of at most MaxWords words.
Categories ==
    {c \in UNION {[1..m -> WordPool] : m \in 0..MaxWords} : DistinctKeys(c)}

RECURSIVE TotalWords(_)
TotalWords(db) ==
    IF db = <<>> THEN 0 ELSE Len(db[1].v) + TotalWords(Tail(db))

\* The databases of exactly m categories and at most w words in all.
RECURSIVE DatabasesOf(_, _)
DatabasesOf(m, w) ==
    IF m = 0 THEN {<<>>}
    ELSE UNION { { Append(d, [k |-> n, v |-> c]) :
                       n \in CatNames \ KeySet(d),
                       c \in {x \in Categories : Len(x) <= w - TotalWords(d)} } :
                 d \in DatabasesOf(m - 1, w) }

\* One category of two words with one tag each, in descending order; two
\* categories a -> [z, a] and b -> [y, x] of empty entries; one category of
\* four words in descending order.
SampleDatabases ==
    { <<[k |-> <<97, 110>>, v |->                                       \* "an"
          <<[k |-> <<122, 101>>, v |-> <<[k |-> TAGS, v |-> JList(<<TagX>>)]>>],
            [k |-> <<97, 110, 116>>, v |-> <<[k |-> TAGS, v |-> JList(<<TagY>>)]>>]>>]>>,
      <<[k |-> <<97>>, v |-> <<[k |-> <<122>>, v |-> <<>>], [k |-> <<97>>, v |-> <<>>]>>],
        [k |-> <<98>>, v |-> <<[k |-> <<121>>, v |-> <<>>], [k |-> <<120>>, v |-> <<>>]>>]>>,
      <<[k |-> <<99>>, v |->
          <<[k |-> <<98>>, v |-> <<[k |-> TAGS, v |-> JList(<<TagY, TagX>>)]>>],
            [k |-> <<97, 98>>, v |-> <<[k |-> TAGS, v |-> JNull]>>],
            [k |-> <<97>>, v |-> <<[k |-> DEFN, v |-> JStr(<<100>>)]>>],
            [k |-> <<66>>, v |-> <<[k |-> TAGS, v |-> JList(<<>>)]>>]>>]>> }

\* Every order of every subset of the category names, with at most MaxWords
\* words from the pool.
Databases ==
    UNION {DatabasesOf(m, MaxWords) : m \in 0..Cardinality(CatNames)}
    \cup SampleDatabases

\* Texts that are not the dump of a database: an empty file, a truncated
\* object, a trailing comma, and a well-formed text in which a word and a
\* category occur twice.
OtherTexts ==
    { <<>>,
      <<Tok("{"), StrTok(<<97>>), Tok(":")>>,
      <<Tok("{"), StrTok(<<97>>), Tok(":"), Tok("{"), Tok("}"), Tok(","), Tok("}")>>,
      <<Tok("{"),
          StrTok(<<98>>), Tok(":"), Tok("{"),
              StrTok(<<98>>), Tok(":"), Tok("{"), Tok("}"), Tok(","),
              StrTok(<<66>>), Tok(":"), Tok("{"),
                  StrTok(TAGS), Tok(":"), Tok("["), StrTok(TagX), Tok("]"), Tok("}"), Tok(","),
              StrTok(<<98>>), Tok(":"), Tok("{"),
                  StrTok(TAGS), Tok(":"), Tok("["), StrTok(TagY), Tok(","), StrTok(TagY), Tok("]"),
              Tok("}"), Tok("}"), Tok(","),
          StrTok(<<97>>), Tok(":"), Tok("{"), Tok("}"), Tok(","),
          StrTok(<<98>>), Tok(":"), Tok("{"),
              StrTok(<<97>>), Tok(":"), Tok("{"), Tok("}"), Tok("}"),
        Tok("}")>> }

NoFile == [kind |-> "missing", content |-> <<>>]
TextFile(c) == [kind |-> "text", content |-> c]

\* What words-database.json can be when the program starts.
DatabaseFiles == {TextFile(Dump(db)) : db \in Databases}

OtherFiles ==
    { NoFile,
      [kind |-> "unreadable", content |-> <<>>],     \* a directory, no permission
      [kind |-> "undecodable", content |-> <<>>] }   \* bytes that are not text
    \cup {TextFile(c) : c \in OtherTexts}

\* What new-words-database.json can be when the program starts.
OutputFiles == {NoFile, TextFile(<<Tok("{"), Tok("}")>>)}

(***************************************************************************)
(* State.                                                                  *)
(***************************************************************************)
VARIABLES
    inFile,              \* words-database.json
    outFile,             \* new-words-database.json
    pc,                  \* where the run is: Start, Loaded, Sorted, Audited,
                         \* Written, Aborted (returned after an error message),
                         \* Raised (left by an exception nothing catches)
    data,                \* line 10
    all_tags,            \* line 18
    processed_data,      \* line 19
    ci,                  \* index of the next category of the loop of line 21
    final_tags_in_use,   \* line 44
    ai,                  \* index of the next category of the loop of line 45
    console,             \* the messages printed by the run
    run,                 \* "first", or "second" when the output was fed back
    loaded,              \* history: data as json.load returned it
    visited,             \* history: the values pc took in this run
    writeAttempts,       \* history: executions of the try block of line 58
    firstOut,            \* history: the text written by the first run
    origOut              \* history: new-words-database.json when the run started

vars == <<inFile, outFile, pc, data, all_tags, processed_data, ci,
          final_tags_in_use, ai, console, run, loaded, visited,
          writeAttempts, firstOut, origOut>>

locals == <<data, all_tags, processed_data, ci, final_tags_in_use, ai, loaded>>

Goto(state) ==
    /\ pc' = state
    /\ visited' = Append(visited, state)

Init ==
    /\ \/ inFile \in DatabaseFiles /\ outFile = NoFile
       \/ inFile \in OtherFiles /\ outFile \in OutputFiles
    /\ pc = "Start"
    /\ data = <<>>
    /\ all_tags = {}
    /\ processed_data = <<>>
    /\ ci = 1
    /\ final_tags_in_use = {}
    /\ ai = 1
    /\ console = <<>>
    /\ run = "first"
    /\ loaded = <<>>
    /\ visited = <<"Start">>
    /\ writeAttempts = 0
    /\ firstOut = <<>>
    /\ origOut = outFile

(***************************************************************************)
(* Lines 8-19: open and json.load.                                         *)
(***************************************************************************)
\* The file is read and parsed; lines 18-19 initialise the accumulators.
LoadOk ==
    /\ pc = "Start"
    /\ inFile.kind = "text"
    /\ \E p \in {Load(inFile.content)} :
           /\ p.ok
           /\ data' = p.val
           /\ loaded' = p.val
    /\ all_tags' = {}
    /\ processed_data' = <<>>
    /\ ci' = 1
    /\ Goto("Loaded")
    /\ UNCHANGED <<inFile, outFile, final_tags_in_use, ai, console, run,
                   writeAttempts, firstOut, origOut>>

\* Lines 11-13: open raises FileNotFoundError.
LoadNotFound ==
    /\ pc = "Start"
    /\ inFile.kind = "missing"
    /\ console' = Append(console, "Error: not found")
    /\ Goto("Aborted")
    /\ UNCHANGED <<inFile, outFile, run, writeAttempts, firstOut, origOut>>
    /\ UNCHANGED locals

\* Lines 14-16: json.load raises json.JSONDecodeError.
LoadDecodeError ==
    /\ pc = "Start"
    /\ inFile.kind = "text"
    /\ ~Load(inFile.content).ok
    /\ console' = Append(console, "Error: could not decode JSON")
    /\ Goto("Aborted")
    /\ UNCHANGED <<inFile, outFile, run, writeAttempts, firstOut, origOut>>
    /\ UNCHANGED locals

\* Lines 9-10 raise an exception that neither except clause names: open
\* raises IsADirectoryError or PermissionError, or reading the file raises
\* UnicodeDecodeError.  The exception leaves process_words_database.
LoadRaises ==
    /\ pc = "Start"
    /\ inFile.kind \in {"unreadable", "undecodable"}
    /\ Goto("Raised")
    /\ UNCHANGED <<inFile, outFile, console, run, writeAttempts, firstOut, origOut>>
    /\ UNCHANGED locals

(***************************************************************************)
(* Lines 21-31: one iteration of the loop over data.items().               *)
(***************************************************************************)
SortCategoryInPlace ==
    /\ pc = "Loaded"
    /\ ci <= Len(data)
    /\ LET category == data[ci].k
           words_data == data[ci].v
           r == SortWords(words_data)
       IN /\ all_tags' = all_tags \cup r.tags
          /\ processed_data' = DictSet(processed_data, category, r.sorted_words_data)
          /\ data' = [data EXCEPT ![ci].v = r.sorted_words_data]
    /\ ci' = ci + 1
    /\ UNCHANGED <<inFile, outFile, pc, final_tags_in_use, ai, console, run,
                   loaded, visited, writeAttempts, firstOut, origOut>>

SortCategoryFront ==
    /\ pc = "Loaded"
    /\ ci <= Len(data)
    /\ LET category == data[ci].k
           words_data == data[ci].v
           r == SortWords(words_data)
       IN /\ all_tags' = all_tags \cup r.tags
          /\ processed_data' =
                 <<[k |-> category, v |-> r.sorted_words_data]>> \o processed_data
    /\ ci' = ci + 1
    /\ UNCHANGED <<inFile, outFile, pc, data, final_tags_in_use, ai, console,
                   run, loaded, visited, writeAttempts, firstOut, origOut>>

SortCategory ==
    /\ pc = "Loaded"
    /\ ci <= Len(data)
    /\ LET category == data[ci].k
           words_data == data[ci].v
           r == SortWords(words_data)
       IN /\ all_tags' = all_tags \cup r.tags
          /\ processed_data' = DictSet(processed_data, category, r.sorted_words_data)
    /\ ci' = ci + 1
    /\ UNCHANGED <<inFile, outFile, pc, data, final_tags_in_use, ai, console,
                   run, loaded, visited, writeAttempts, firstOut,
                   origOut>>

\* The loop of line 21 is exhausted; line 44 initialises final_tags_in_use.
SortDone ==
    /\ pc = "Loaded"
    /\ ci > Len(data)
    /\ final_tags_in_use' = {}
    /\ ai' = 1
    /\ Goto("Sorted")
    /\ UNCHANGED <<inFile, outFile, data, all_tags, processed_data, ci,
                   console, run, loaded, writeAttempts, firstOut,
                   origOut>>

(***************************************************************************)
(* Lines 45-49: one iteration of the loop over processed_data.items().     *)
(***************************************************************************)
AuditCategory ==
    /\ pc = "Sorted"
    /\ ai <= Len(processed_data)
    /\ LET words_data == processed_data[ai].v
       IN final_tags_in_use' = final_tags_in_use \cup AuditWords(words_data)
    /\ ai' = ai + 1
    /\ UNCHANGED <<inFile, outFile, pc, data, all_tags, processed_data, ci,
                   console, run, loaded, visited, writeAttempts, firstOut,
                   origOut>>

\* Lines 53-55: the loop of line 45 is exhausted; the two sets are compared.
AuditDone ==
    /\ pc = "Sorted"
    /\ ai > Len(processed_data)
    /\ LET unused_tags_after_processing == all_tags \ final_tags_in_use
       IN console' = IF unused_tags_after_processing # {}
                     THEN Append(console, "Warning: tags not used")
                     ELSE console
    /\ Goto("Audited")
    /\ UNCHANGED <<inFile, outFile, data, all_tags, processed_data, ci,
                   final_tags_in_use, ai, run, loaded, writeAttempts, firstOut,
                   origOut>>

(***************************************************************************)
(* Lines 58-63: open(output_filename, 'w') and json.dump.                  *)
(***************************************************************************)
\* As WriteOk with the file opened in mode 'a'.
WriteOkAppend ==
    /\ pc = "Audited"
    /\ writeAttempts' = writeAttempts + 1
    /\ \E text \in {outFile.content \o Dump(processed_data)} :
           /\ outFile' = TextFile(text)
           /\ firstOut' = IF run = "first" THEN text ELSE firstOut
    /\ console' = Append(console, "Successfully processed and saved")
    /\ Goto("Written")
    /\ UNCHANGED <<inFile, run, origOut>>
    /\ UNCHANGED locals

WriteOk ==
    /\ pc = "Audited"
    /\ writeAttempts' = writeAttempts + 1
    /\ \E text \in {Dump(processed_data)} :
           /\ outFile' = TextFile(text)
           /\ firstOut' = IF run = "first" THEN text ELSE firstOut
    /\ console' = Append(console, "Successfully processed and saved")
    /\ Goto("Written")
    /\ UNCHANGED <<inFile, run, origOut>>
    /\ UNCHANGED locals

\* open raises an OSError (IOError is OSError): the file is left as it was.
WriteOpenFails ==
    /\ pc = "Audited"
    /\ writeAttempts' = writeAttempts + 1
    /\ console' = Append(console, "Error: could not write")
    /\ Goto("Aborted")
    /\ UNCHANGED <<inFile, outFile, run, firstOut, origOut>>
    /\ UNCHANGED locals

\* open truncates the file, then a write raises an OSError: the file holds
\* a prefix of the text.
WriteFailsMidway ==
    /\ pc = "Audited"
    /\ writeAttempts' = writeAttempts + 1
    /\ \E text \in {Dump(processed_data)} :
           \E n \in {0, Len(text) \div 2} :
               outFile' = TextFile(SubSeq(text, 1, n))
    /\ console' = Append(console, "Error: could not write")
    /\ Goto("Aborted")
    /\ UNCHANGED <<inFile, run, firstOut, origOut>>
    /\ UNCHANGED locals

(***************************************************************************)
(* Lines 66-70 run again with the file just written as words-database.json.*)
(***************************************************************************)
RunOnOutput ==
    /\ pc = "Written"
    /\ run = "first"
    /\ run' = "second"
    /\ inFile' = outFile
    /\ pc' = "Start"
    /\ visited' = <<"Start">>
    /\ writeAttempts' = 0
    /\ console' = <<>>
    /\ data' = <<>>
    /\ loaded' = <<>>
    /\ all_tags' = {}
    /\ processed_data' = <<>>
    /\ ci' = 1
    /\ final_tags_in_use' = {}
    /\ ai' = 1
    /\ origOut' = outFile
    /\ UNCHANGED <<outFile, firstOut>>

Next ==
    \/ LoadOk
    \/ LoadNotFound
    \/ LoadDecodeError
    \/ LoadRaises
    \/ SortCategory
    \/ SortDone
    \/ AuditCategory
    \/ AuditDone
    \/ WriteOk
    \/ WriteOpenFails
    \/ WriteFailsMidway
    \/ RunOnOutput

Spec == Init /\ [][Next]_vars

(***************************************************************************)
(* Properties.                                                             *)
(***************************************************************************)
Reached(state) == \E i \in 1..Len(visited) : visited[i] = state

Printed(msg) == \E i \in 1..Len(console) : console[i] = msg

\* a < b in code-point order, stated without recursion: a and b agree up to
\* a position where a has ended and b has not, or where a's code point is
\* the smaller.
CodePointLess(a, b) ==
    \E i \in 1..(Len(a) + 1) :
        /\ i <= Len(b)
        /\ \A j \in 1..(i - 1) : a[j] = b[j]
        /\ (i = Len(a) + 1 \/ a[i] < b[i])

StrictlyAscending(db) ==
    \A c \in 1..Len(db) :
        \A i \in 1..(Len(db[c].v) - 1) :
            CodePointLess(db[c].v[i].k, db[c].v[i + 1].k)

Pairs(db) ==
    UNION { {<<db[c].k, db[c].v[i].k>> : i \in 1..Len(db[c].v)} : c \in 1..Len(db) }

\* Some category of the loaded database lists its words in another order
\* than the processed database does.
Reordered ==
    \E c \in 1..Len(loaded) :
        /\ c <= Len(processed_data)
        /\ Len(loaded[c].v) >= 2
        /\ Keys(loaded[c].v) # Keys(processed_data[c].v)

\* C1: in every category of the mapping the sort pass builds, and of the
\* text it writes, each word identifier is smaller in code-point order than
\* the one emitted after it.
C1_SortCorrectness ==
    /\ StrictlyAscending(processed_data)
    /\ pc = "Written" => StrictlyAscending(Load(outFile.content).val)

C1_Witness ==
    /\ pc = "Written"
    /\ Reordered
    /\ \E c \in 1..Len(processed_data) : Len(processed_data[c].v) >= 3

\* C2: once the sort pass is over, the processed database has the same
\* categories as the loaded one, each once, and the same (category, word)
\* pairs, each once.
C2_SetPreservation ==
    Reached("Sorted") =>
        /\ KeySet(processed_data) = KeySet(loaded)
        /\ Len(processed_data) = Len(loaded)
        /\ Pairs(processed_data) = Pairs(loaded)
        /\ TotalWords(processed_data) = TotalWords(loaded)

C2_Witness ==
    /\ pc = "Sorted"
    /\ Len(loaded) >= 2
    /\ Reordered
    /\ \E c \in 1..Len(loaded) : loaded[c].v = <<>>

\* C3: once the sort pass is over, every word of every category of the
\* loaded database is in the processed database with an equal entry, also
\* when the entry has no tags field or one that is not a list.
C3_FieldPreservation ==
    Reached("Sorted") =>
        \A c \in 1..Len(loaded) :
            /\ HasKey(processed_data, loaded[c].k)
            /\ \A i \in 1..Len(loaded[c].v) :
                   /\ HasKey(Get(processed_data, loaded[c].k), loaded[c].v[i].k)
                   /\ Get(Get(processed_data, loaded[c].k), loaded[c].v[i].k)
                          = loaded[c].v[i].v

C3_Witness ==
    /\ pc = "Written"
    /\ Reordered
    /\ \E c \in 1..Len(loaded) :
           /\ \E i \in 1..Len(loaded[c].v) :
                  /\ HasKey(loaded[c].v[i].v, TAGS)
                  /\ ~IsList(Get(loaded[c].v[i].v, TAGS))
           /\ \E i \in 1..Len(loaded[c].v) : ~HasKey(loaded[c].v[i].v, TAGS)

\* C4: when the audit is over, the tags collected by the sort pass are the
\* tags found in the processed database, and no warning was printed.
C4_TagSetStability ==
    Reached("Audited") =>
        /\ all_tags = final_tags_in_use
        /\ ~Printed("Warning: tags not used")

C4_Witness ==
    /\ pc = "Audited"
    /\ Cardinality(all_tags) >= 2
    /\ Len(loaded) >= 2
    /\ Reordered

\* C5: when the input is not a readable file or its content is not
\* well-formed, the run prints an error, executes no sort, audit or write
\* step, leaves the output file as it was, and returns without raising.
LoadFails ==
    \/ inFile.kind \in {"missing", "unreadable", "undecodable"}
    \/ inFile.kind = "text" /\ ~Load(inFile.content).ok

C5_LoadFailureAborts ==
    (pc # "Start" /\ LoadFails) =>
        /\ pc = "Aborted"
        /\ visited = <<"Start", "Aborted">>
        /\ Len(console) = 1
        /\ writeAttempts = 0
        /\ outFile = origOut
        /\ processed_data = <<>>

\* The part of C5 the except clauses of lines 11 and 14 cover: when open
\* raises FileNotFoundError or json.load raises JSONDecodeError, the run
\* prints one error, attempts no write, leaves the output file as it was
\* and returns.
CaughtLoadFailureAborts ==
    (pc # "Start" /\ (inFile.kind = "missing"
                         \/ (inFile.kind = "text" /\ ~Load(inFile.content).ok))) =>
        /\ pc = "Aborted"
        /\ visited = <<"Start", "Aborted">>
        /\ Len(console) = 1
        /\ writeAttempts = 0
        /\ outFile = origOut
        /\ processed_data = <<>>

\* C6: a run goes through Start, Loaded, Sorted, Audited and then Written
\* or Aborted, or from Start to Aborted; it stops only in Written or
\* Aborted; the write is attempted once, after the audit, by the runs that
\* loaded.
RunPaths ==
    { <<"Start", "Loaded", "Sorted", "Audited", "Written">>,
      <<"Start", "Loaded", "Sorted", "Audited", "Aborted">>,
      <<"Start", "Aborted">> }

C6_RunOrder ==
    /\ \E path \in RunPaths :
           /\ Len(visited) <= Len(path)
           /\ visited = SubSeq(path, 1, Len(visited))
    /\ writeAttempts = (IF Reached("Audited") /\ pc # "Audited" THEN 1 ELSE 0)
    /\ pc # "Raised"

\* C7: the run on the text written by a first run loads it and writes the
\* same text.
C7_Idempotence ==
    run = "second" =>
        /\ pc # "Raised"
        /\ pc = "Aborted" => writeAttempts = 1
        /\ pc = "Written" => outFile = TextFile(firstOut)

C7_Witness ==
    /\ run = "second"
    /\ pc = "Written"
    /\ Len(processed_data) >= 2
    /\ \E c \in 1..Len(processed_data) : Len(processed_data[c].v) >= 2

\* C8: once the sort pass is over, the processed database lists the
\* categories in the order of the loaded one, and so does the text written.
C8_CategoryOrder ==
    /\ Reached("Sorted") => Keys(processed_data) = Keys(loaded)
    /\ pc = "Written" => Keys(Load(outFile.content).val) = Keys(loaded)

\* Scenario 5: a -> [z, a], b -> [y, x] gives a -> [a, z], b -> [x, y].
C8_Witness ==
    /\ pc = "Written"
    /\ Keys(loaded) = <<(<<97>>), (<<98>>)>>
    /\ Keys(loaded[1].v) = <<(<<122>>), (<<97>>)>>
    /\ Keys(loaded[2].v) = <<(<<121>>), (<<120>>)>>
    /\ Keys(processed_data) = <<(<<97>>), (<<98>>)>>
    /\ Keys(processed_data[1].v) = <<(<<97>>), (<<122>>)>>
    /\ Keys(processed_data[2].v) = <<(<<120>>), (<<121>>)>>

EntriesOf(db) ==
    UNION { {db[c].v[i].v : i \in 1..Len(db[c].v)} : c \in 1..Len(db) }

\* The elements of the tags fields that are lists, over all entries of db.
ListTags(db) ==
    UNION { UNION { {e[j].v.val[n] : n \in 1..Len(e[j].v.val)} :
                        j \in {x \in 1..Len(e) : e[x].k = TAGS /\ e[x].v.type = "list"} } :
            e \in EntriesOf(db) }

\* C9: once the sort pass is over, the collected tags are the elements of
\* the tags fields that are lists, over all entries of all categories; the
\* audit finds the same set, and no warning is printed.
C9_CollectedTags ==
    /\ Reached("Sorted") => all_tags = ListTags(loaded)
    /\ Reached("Audited") =>
           /\ final_tags_in_use = ListTags(loaded)
           /\ ~Printed("Warning: tags not used")

C9_Witness ==
    /\ pc = "Audited"
    /\ all_tags # {}
    /\ \E e \in EntriesOf(loaded) : HasKey(e, TAGS) /\ ~IsList(Get(e, TAGS))
    /\ \E e \in EntriesOf(loaded) : ~HasKey(e, TAGS)

\* C10: from the load on, through the sort pass and the audit, data is what
\* json.load returned: same categories, same words in the same order, same
\* entries.
C10_InputUnchanged ==
    Reached("Loaded") => data = loaded

C10_Witness ==
    /\ pc = "Audited"
    /\ Reordered
    /\ data # processed_data
    /\ Len(data) >= 2

====
